---- MODULE Spec2Model ----
(***************************************************************************)
(* Model of keras_cv/models/segmentation/deeplab.py: the DeepLabV3 model   *)
(* composer (constructor, train_step, get_config) and the SegmentationHead *)
(* layer (constructor, call).                                              *)
(*                                                                         *)
(* Encoding conventions.                                                   *)
(*  - An optional Python value is a sequence of length 0 (None) or 1.      *)
(*  - An unresolved spatial dimension (Python None) is the value None.     *)
(*  - A Python str that the code inspects character by character is a      *)
(*    sequence of one-character strings.                                   *)
(*  - A call that raises leaves its exception class in the field outcome;  *)
(*    a call that returns has outcome "ok".                                *)
(*  - trace / applied record, in order, the calls a handler made.          *)
(***************************************************************************)
EXTENDS Integers, Sequences, FiniteSets

VARIABLES model, ret, head, out

vars == <<model, ret, head, out>>

(***************************************************************************)
(* Bounds of the model.                                                    *)
(***************************************************************************)
MaxConvolutions == 2
MaxLevel == 5
MaxDim == 9

\* pyramid levels of the feature mappings given to the head
Levels == (MaxLevel - 2)..MaxLevel
\* resolved heights and widths
DimValues == {MaxDim - 1, MaxDim}

None == -1

(***************************************************************************)
(* Python strings as character sequences.                                  *)
(***************************************************************************)
Digits == <<"0","1","2","3","4","5","6","7","8","9">>

\* "{}".format(i) for a one-digit i
format(i) == <<Digits[i + 1]>>

\* Python `sub in s` on strings
Contains(sub, s) ==
    \E i \in 0..(Len(s) - Len(sub)) :
        \A j \in 1..Len(sub) : s[i + j] = sub[j]

RECURSIVE SeqToSet(_)
SeqToSet(s) == IF s = <<>> THEN {} ELSE {Head(s)} \cup SeqToSet(Tail(s))

(***************************************************************************)
(* SegmentationHead                                                        *)
(***************************************************************************)
conv_name(i) ==
    <<"s","e","g","m","e","n","t","a","t","i","o","n","_","h","e","a","d",
      "_","c","o","n","v","_">> \o format(i)

norm_name(i) ==
    <<"s","e","g","m","e","n","t","a","t","i","o","n","_","h","e","a","d",
      "_","n","o","r","m","_">> \o format(i)

output_name ==
    <<"s","e","g","m","e","n","t","a","t","i","o","n","_","o","u","t","p",
      "u","t">>

Conv2D(name, filters, kernel_size, use_bias) ==
    [type |-> "Conv2D", name |-> name, filters |-> filters,
     kernel_size |-> kernel_size, use_bias |-> use_bias]

BatchNormalization(name) ==
    [type |-> "BatchNormalization", name |-> name, filters |-> 0,
     kernel_size |-> 0, use_bias |-> FALSE]

\* for i in range(self.convolutions): self._conv_layers.append(Conv2D(...))
RECURSIVE conv_layers_mut(_, _)
conv_layers_mut(cfg, n) ==
    IF n <= 1 THEN <<>>
    ELSE Append(conv_layers_mut(cfg, n - 1),
                Conv2D(conv_name(n - 1), cfg.filters, cfg.kernel_size,
                       cfg.use_bias))

RECURSIVE conv_layers(_, _)
conv_layers(cfg, n) ==
    IF n <= 0 THEN <<>>
    ELSE Append(conv_layers(cfg, n - 1),
                Conv2D(conv_name(n - 1), cfg.filters, cfg.kernel_size,
                       cfg.use_bias))

\* for i in range(self.convolutions): self._bn_layers.append(BatchNorm...)
RECURSIVE bn_layers(_)
bn_layers(n) ==
    IF n <= 0 THEN <<>>
    ELSE Append(bn_layers(n - 1), BatchNormalization(norm_name(n - 1)))

classification_layer(cfg) ==
    [type |-> "Conv2D", name |-> output_name, filters |-> cfg.num_classes,
     kernel_size |-> 1, use_bias |-> FALSE]

Dropout(rate) ==
    [type |-> "Dropout", name |-> <<"d","r","o","p","o","u","t">>,
     filters |-> 0, kernel_size |-> rate, use_bias |-> FALSE]

Activation(a) ==
    [type |-> "Activation", name |-> <<a>>, filters |-> 0, kernel_size |-> 0,
     use_bias |-> FALSE]

\* SegmentationHead.__init__: cfg holds the eight constructor arguments.
SegmentationHead_init(cfg) ==
    [num_classes |-> cfg.num_classes,
     convolutions |-> cfg.convolutions,
     filters |-> cfg.filters,
     activations |-> cfg.activations,
     dropout |-> cfg.dropout,
     kernel_size |-> cfg.kernel_size,
     use_bias |-> cfg.use_bias,
     activation |-> cfg.activation,
     _conv_layers |-> conv_layers(cfg, cfg.convolutions),
     _bn_layers |-> bn_layers(cfg.convolutions),
     _classification_layer |-> classification_layer(cfg),
     dropout_layer |-> Dropout(cfg.dropout)]

\* SegmentationHead.get_config (the entries the layer itself adds)
SegmentationHead_get_config(h) ==
    [num_classes |-> h.num_classes, convolutions |-> h.convolutions,
     filters |-> h.filters, activations |-> h.activations,
     dropout |-> h.dropout, kernel_size |-> h.kernel_size,
     use_bias |-> h.use_bias, activation |-> h.activation]

\* A Python dict is the sequence of its items in insertion order.
dict_keys(items) == [i \in 1..Len(items) |-> items[i].k]

\* list.insert into an ascending list
RECURSIVE insert_sorted(_, _)
insert_sorted(x, s) ==
    IF s = <<>> THEN <<x>>
    ELSE IF x <= Head(s) THEN <<x>> \o s
    ELSE <<Head(s)>> \o insert_sorted(x, Tail(s))

sorted_mut(s) == s

\* Python sorted(): ascending order of the keys the dict iterates over
RECURSIVE sorted(_)
sorted(s) ==
    IF s = <<>> THEN <<>> ELSE insert_sorted(Head(s), sorted(Tail(s)))

\* inputs[key]
dict_value(items, key) ==
    items[CHOOSE i \in 1..Len(items) : items[i].k = key].v

\* the body of `for conv_layer, bn_layer in zip(...)`, from block i on
RECURSIVE apply_blocks(_, _)
apply_blocks(h, i) ==
    IF i > Len(h._conv_layers) \/ i > Len(h._bn_layers) THEN <<>>
    ELSE <<h._conv_layers[i], h._bn_layers[i], Activation(h.activations)>>
         \o (IF h.dropout # 0 THEN <<h.dropout_layer>> ELSE <<>>)
         \o apply_blocks(h, i + 1)

\* SegmentationHead.call.  inputs = [isDict, items]: whether the argument is
\* a dict, and its items
SegmentationHead_call(h, inputs) ==
    IF ~inputs.isDict
    THEN [outcome |-> "ValueError", source |-> <<>>, applied |-> <<>>]
    ELSE LET keys == sorted(dict_keys(inputs.items)) IN
         IF keys = <<>>
         THEN [outcome |-> "StopIteration", source |-> <<>>, applied |-> <<>>]
         ELSE LET lowest_level == keys[1]
                  x == dict_value(inputs.items, lowest_level)
              IN [outcome |-> "ok", source |-> <<x>>,
                  applied |-> apply_blocks(h, 1)
                              \o <<h._classification_layer>>]

(***************************************************************************)
(* DeepLabV3                                                               *)
(***************************************************************************)
\* Python truthiness of the `weights` argument (None and "" are falsy)
Truthy(w) == w # <<>> /\ w[1] # ""

\* keras_cv.models.weights.parse_weights: a named pretrained-weights
\* identifier is looked up, a path is returned as it is.
parse_weights(w, include_top, model_type) ==
    IF w = "voc" THEN "voc.h5" ELSE w

\* tf.io.gfile.exists against the files present
gfile_exists(files, path) == path \in files

\* keras_cv.models.utils.parse_model_inputs with input_tensor=None:
\* a fresh Input of the given shape
parse_model_inputs(input_shape, input_tensor) == input_shape

\* SpatialPyramidPooling(dilation_rates=[6, 12, 18])
SpatialPyramidPooling(dilation_rates) ==
    [dilation_rates |-> dilation_rates, vars |-> {}]

\* backbone(inputs): spatial shape of the feature map of a backbone of the
\* given output stride (same padding); an unresolved dimension stays so.
backbone_call(backbone, shape) ==
    [i \in 1..2 |->
        IF shape[i] = None THEN None
        ELSE (shape[i] + backbone.stride - 1) \div backbone.stride]

backbone_invalid_mut(a) == FALSE

\* if not isinstance(backbone, keras.layers.Layer)
backbone_invalid(a) == ~a.backbone.isLayer

weights_missing_mut(a) ==
    /\ Truthy(a.weights)
    /\ gfile_exists(a.files, parse_weights(a.weights[1], TRUE, "deeplabv3"))

\* if weights and not tf.io.gfile.exists(parse_weights(...))
weights_missing(a) ==
    /\ Truthy(a.weights)
    /\ ~gfile_exists(a.files, parse_weights(a.weights[1], TRUE, "deeplabv3"))

both_none(input_shape) == input_shape[1] = None /\ input_shape[2] = None

\* if input_shape[0] is None and input_shape[1] is None:
\*     input_shape = backbone.input_shape[1:]
resolve_input_shape(a) ==
    IF both_none(a.input_shape) THEN a.backbone.input_shape
    ELSE a.input_shape

\* the default head of DeepLabV3
default_head(a) ==
    SegmentationHead_init(
        [num_classes |-> a.num_classes, convolutions |-> 1, filters |-> 256,
         activations |-> "relu", dropout |-> 20, kernel_size |-> 1,
         use_bias |-> FALSE, activation |-> a.segmentation_head_activation])

\* if weights is not None
weights_given(a) == a.weights # <<>>

Raise(a, exc, trace) ==
    [args |-> a, outcome |-> exc, trace |-> trace, attrs |-> <<>>,
     output_shape |-> <<>>]

\* lines 93-140: from backbone(inputs) to the attribute assignments
compose(a, input_shape, inputs, t) ==
    LET height == input_shape[1]
        width == input_shape[2]
        feature_map == backbone_call(a.backbone, inputs)
        spp == IF a.spatial_pyramid_pooling = <<>>
               THEN SpatialPyramidPooling(<<6, 12, 18>>)
               ELSE a.spatial_pyramid_pooling[1]
        t1 == t \o <<"backbone">>
                \o (IF a.spatial_pyramid_pooling = <<>>
                    THEN <<"SpatialPyramidPooling">> ELSE <<>>)
                \o <<"spatial_pyramid_pooling">>
    IN
    IF height = None \/ width = None
       \/ feature_map[1] = None \/ feature_map[2] = None
    THEN Raise(a, "TypeError", t1)
    ELSE
    LET size == <<height \div feature_map[1], width \div feature_map[2]>>
        upsampled == <<feature_map[1] * size[1], feature_map[2] * size[2]>>
        segmentation_head == IF a.segmentation_head = <<>>
                             THEN default_head(a)
                             ELSE a.segmentation_head[1]
        t2 == t1 \o <<"UpSampling2D">>
                 \o (IF a.segmentation_head = <<>>
                     THEN <<"SegmentationHead">> ELSE <<>>)
                 \o <<"segmentation_head">>
        output == SegmentationHead_call(
                      segmentation_head,
                      [isDict |-> TRUE,
                       items |-> <<[k |-> 1, v |-> upsampled]>>])
    IN
    IF output.outcome # "ok" THEN Raise(a, output.outcome, t2)
    ELSE
    LET t3 == t2 \o <<"Model.__init__">>
        t4 == t3 \o <<"parse_weights", "load_weights">>
        done(t5) ==
            [args |-> a, outcome |-> "ok", trace |-> t5 \o <<"setattr">>,
             attrs |-> <<[num_classes |-> a.num_classes,
                          backbone |-> a.backbone,
                          spatial_pyramid_pooling |-> spp,
                          segmentation_head |-> segmentation_head,
                          segmentation_head_activation |->
                              a.segmentation_head_activation,
                          weight_decay |-> a.weight_decay]>>,
             output_shape |-> output.source]
    IN
    IF weights_given(a)
    THEN IF gfile_exists(a.files,
                         parse_weights(a.weights[1], TRUE, "deeplabv3"))
         THEN done(t4)
         ELSE Raise(a, "OSError", t4)
    ELSE done(t3)

\* DeepLabV3.__init__
DeepLabV3_init(a) ==
    IF backbone_invalid(a) THEN Raise(a, "ValueError", <<"isinstance">>)
    ELSE
    LET t1 == <<"isinstance">>
              \o (IF Truthy(a.weights)
                  THEN <<"parse_weights", "gfile.exists">> ELSE <<>>)
    IN
    IF weights_missing(a) THEN Raise(a, "ValueError", t1)
    ELSE
    LET input_shape == resolve_input_shape(a)
        inputs == IF both_none(a.input_shape) THEN input_shape
                  ELSE parse_model_inputs(a.input_shape, <<>>)
        t2 == t1 \o <<"parse_model_inputs">>
                 \o (IF both_none(a.input_shape) THEN <<"Input">> ELSE <<>>)
    IN
    IF both_none(input_shape) THEN Raise(a, "ValueError", t2)
    ELSE compose(a, input_shape, inputs, t2)

\* the trainable variables of a layer of the head, by the layer's type
layer_variables(l) ==
    IF l.type = "Conv2D"
    THEN {[name |-> l.name \o <<"/","k","e","r","n","e","l">>,
           norm |-> FALSE]}
         \cup (IF l.use_bias
               THEN {[name |-> l.name \o <<"/","b","i","a","s">>,
                      norm |-> FALSE]}
               ELSE {})
    ELSE IF l.type = "BatchNormalization"
    THEN {[name |-> l.name \o <<"/","g","a","m","m","a">>, norm |-> TRUE],
          [name |-> l.name \o <<"/","b","e","t","a">>, norm |-> TRUE]}
    ELSE {}

head_variables(h) ==
    UNION {layer_variables(l) :
             l \in SeqToSet(h._conv_layers) \cup SeqToSet(h._bn_layers)
                   \cup {h._classification_layer}}

\* self.trainable_variables
trainable_variables(m) ==
    m.backbone.vars \cup m.spatial_pyramid_pooling.vars
    \cup head_variables(m.segmentation_head)

\* if "bn" not in var.name
decayed(var) == ~Contains(<<"b","n">>, var.name)

\* DeepLabV3.train_step: the variables that get a term of the L2 penalty
train_step(m) ==
    LET reg_losses == IF m.weight_decay # 0
                      THEN {v \in trainable_variables(m) : decayed(v)}
                      ELSE {}
    IN [op |-> "train_step",
        outcome |-> IF m.weight_decay # 0 /\ reg_losses = {}
                    THEN "ValueError" ELSE "ok",
        reg_losses |-> reg_losses,
        trace |-> <<"compute_loss">>
                  \o (IF m.weight_decay # 0 THEN <<"add_n">> ELSE <<>>)
                  \o (IF m.weight_decay # 0 /\ reg_losses = {} THEN <<>>
                      ELSE <<"minimize", "compute_metrics">>)]

\* DeepLabV3.get_config
get_config(m) ==
    [num_classes |-> m.num_classes,
     backbone |-> m.backbone,
     spatial_pyramid_pooling |-> m.spatial_pyramid_pooling,
     segmentation_head |-> m.segmentation_head,
     segmentation_head_activation |-> m.segmentation_head_activation,
     weight_decay |-> m.weight_decay]

\* DeepLabV3(**config): the other arguments take their defaults
from_config(config, files) ==
    DeepLabV3_init(
        [num_classes |-> config.num_classes,
         backbone |-> config.backbone,
         spatial_pyramid_pooling |-> <<config.spatial_pyramid_pooling>>,
         segmentation_head |-> <<config.segmentation_head>>,
         segmentation_head_activation |-> config.segmentation_head_activation,
         weight_decay |-> config.weight_decay,
         input_shape |-> <<None, None>>,
         weights |-> <<>>,
         files |-> files])

(***************************************************************************)
(* Inputs                                                                  *)
(***************************************************************************)
Dims == {None} \cup DimValues
Shapes == {<<h, w>> : h \in Dims, w \in Dims}

\* variables of a backbone: a convolution kernel and a batch-norm scale
BackboneVars ==
    {[name |-> <<"c","o","n","v","1","_","c","o","n","v","/","k","e","r",
                 "n","e","l">>, norm |-> FALSE],
     [name |-> <<"c","o","n","v","1","_","b","n","/","g","a","m","m","a">>,
      norm |-> TRUE]}

LayerBackbones ==
    {[isLayer |-> TRUE, input_shape |-> s, stride |-> st,
      vars |-> BackboneVars] : s \in Shapes, st \in {2, 4}}

\* an object that is not a keras layer
NotALayer ==
    [isLayer |-> FALSE, input_shape |-> <<None, None>>, stride |-> 2,
     vars |-> {}]

Backbones == LayerBackbones \cup {NotALayer}

\* a backbone accepts a shape that agrees with every dimension it declares
Compatible(backbone, shape) ==
    \A i \in 1..2 : \/ backbone.input_shape[i] = None
                    \/ shape[i] = None
                    \/ shape[i] = backbone.input_shape[i]

WeightsArgs == {<<>>, <<"">>, <<"voc">>, <<"w.h5">>}
FileSystems == SUBSET {"voc.h5", "w.h5"}

HeadConfigs ==
    [num_classes : {2}, convolutions : 0..MaxConvolutions, filters : {256},
     activations : {"relu"}, dropout : {0, 20}, kernel_size : {3},
     use_bias : BOOLEAN, activation : {"softmax"}]

\* heads handed to DeepLabV3 in place of the default one
CustomHeads ==
    {SegmentationHead_init(c) : c \in {d \in HeadConfigs :
                                         d.dropout = 0 /\ ~d.use_bias}}

CustomPoolings == {[dilation_rates |-> <<2, 4>>, vars |-> {}]}

ModelArgs ==
    {a \in [num_classes : {2},
            backbone : Backbones,
            spatial_pyramid_pooling :
                {<<>>} \cup {<<p>> : p \in CustomPoolings},
            segmentation_head : {<<>>} \cup {<<h>> : h \in CustomHeads},
            segmentation_head_activation : {"softmax"},
            weight_decay : {0, 1},
            input_shape : Shapes,
            weights : WeightsArgs,
            files : FileSystems] :
        Compatible(a.backbone, a.input_shape)}

Tensors == {"t1", "t2"}
Items == [k : Levels, v : Tensors]

\* dicts: item sequences without a repeated key
Dicts ==
    {s \in UNION {[1..n -> Items] : n \in 0..Cardinality(Levels)} :
        \A i, j \in 1..Len(s) : s[i].k = s[j].k => i = j}

HeadInputs ==
    {[isDict |-> TRUE, items |-> s] : s \in Dicts}
    \cup {[isDict |-> FALSE, items |-> <<>>]}

(***************************************************************************)
(* State machine                                                           *)
(***************************************************************************)
Init ==
    /\ model = <<>>
    /\ ret = <<>>
    /\ head = <<>>
    /\ out = <<>>

\* m = DeepLabV3(**a)
Construct ==
    /\ model = <<>>
    /\ \E a \in ModelArgs : model' = <<DeepLabV3_init(a)>>
    /\ UNCHANGED <<ret, head, out>>

\* m.train_step(data)
TrainStep ==
    /\ model # <<>>
    /\ model[1].outcome = "ok"
    /\ ret' = <<train_step(model[1].attrs[1])>>
    /\ UNCHANGED <<model, head, out>>

\* DeepLabV3(**m.get_config())
RoundTrip ==
    /\ model # <<>>
    /\ model[1].outcome = "ok"
    /\ LET config == get_config(model[1].attrs[1])
           restored == from_config(config, model[1].args.files)
       IN ret' = <<[op |-> "from_config",
                    outcome |-> restored.outcome,
                    config |-> config,
                    restored |-> IF restored.outcome = "ok"
                                 THEN <<get_config(restored.attrs[1])>>
                                 ELSE <<>>]>>
    /\ UNCHANGED <<model, head, out>>

\* h = SegmentationHead(**cfg)
HeadInit ==
    /\ head = <<>>
    /\ \E cfg \in HeadConfigs : head' = <<SegmentationHead_init(cfg)>>
    /\ UNCHANGED <<model, ret, out>>

\* h(inputs)
HeadCall ==
    /\ head # <<>>
    /\ \E inputs \in HeadInputs :
          LET r == SegmentationHead_call(head[1], inputs)
          IN out' = <<[inputs |-> inputs, outcome |-> r.outcome,
                       source |-> r.source, applied |-> r.applied]>>
    /\ UNCHANGED <<model, ret, head>>

Next == Construct \/ TrainStep \/ RoundTrip

Spec == Init /\ [][Next]_vars

HeadNext == HeadInit \/ HeadCall

HeadSpec == Init /\ [][HeadNext]_vars

(***************************************************************************)
(* Properties                                                              *)
(***************************************************************************)
Called(trace, e) == \E i \in 1..Len(trace) : trace[i] = e

Constructed == model # <<>> /\ model[1].outcome = "ok"

\* C1: every composed model whose input height and width are resolved
\* (given directly or inferred from the backbone) has an output of the same
\* height and width as its input.
C1_OutputResolutionEqualsInput ==
    Constructed =>
        model[1].output_shape = <<resolve_input_shape(model[1].args)>>

\* C2: with a non-zero weight_decay the L2 penalty of train_step has a term
\* for exactly the trainable parameters that are not normalization
\* parameters; the BatchNormalization parameters of the head have none.
C2_PenaltySkipsNormalization ==
    (ret # <<>> /\ ret[1].op = "train_step"
     /\ model[1].attrs[1].weight_decay # 0) =>
        \A v \in trainable_variables(model[1].attrs[1]) :
            (v \in ret[1].reg_losses) <=> ~v.norm

\* each missing dimension taken from the backbone's declared input shape
InferredShape(a) ==
    [i \in 1..2 |-> IF a.input_shape[i] = None
                    THEN a.backbone.input_shape[i]
                    ELSE a.input_shape[i]]

\* C3: when the input height or width is None the missing dimensions come
\* from the backbone, and a dimension that is still unresolved makes the
\* constructor fail with ValueError before the upsampling factor is
\* computed, also when exactly one of height and width is None.
C3_UnresolvedShapeIsValueError ==
    (/\ model # <<>>
     /\ ~backbone_invalid(model[1].args)
     /\ ~weights_missing(model[1].args)
     /\ \E i \in 1..2 : model[1].args.input_shape[i] = None) =>
        IF \E i \in 1..2 : InferredShape(model[1].args)[i] = None
        THEN /\ model[1].outcome = "ValueError"
             /\ ~Called(model[1].trace, "UpSampling2D")
        ELSE model[1].outcome \notin {"ValueError", "TypeError"}

Computation ==
    {"parse_model_inputs", "Input", "backbone", "SpatialPyramidPooling",
     "spatial_pyramid_pooling", "UpSampling2D", "SegmentationHead",
     "segmentation_head", "Model.__init__", "load_weights", "setattr"}

\* C4: a construction with a weights reference whose resolved resource does
\* not exist raises ValueError before any computation: no input is parsed,
\* backbone, pooling module and head are not called, no weights are loaded.
C4_MissingWeightsRaiseFirst ==
    (/\ model # <<>>
     /\ Truthy(model[1].args.weights)
     /\ parse_weights(model[1].args.weights[1], TRUE, "deeplabv3")
            \notin model[1].args.files) =>
        /\ model[1].outcome = "ValueError"
        /\ \A e \in Computation : ~Called(model[1].trace, e)
        /\ model[1].attrs = <<>>

C4_Witness ==
    /\ model # <<>>
    /\ model[1].args.backbone.isLayer
    /\ model[1].args.weights = <<"w.h5">>
    /\ model[1].args.files = {"voc.h5"}
    /\ model[1].args.input_shape = <<MaxDim, MaxDim>>
    /\ model[1].outcome = "ValueError"

\* C5: a construction with a backbone that is not a layer raises ValueError
\* whatever the other arguments are, as the first check: the weights
\* reference is neither resolved nor tested and no attribute is set.
C5_NonLayerBackboneRaisesFirst ==
    (model # <<>> /\ ~model[1].args.backbone.isLayer) =>
        /\ model[1].outcome = "ValueError"
        /\ model[1].trace = <<"isinstance">>
        /\ model[1].attrs = <<>>

C5_Witness ==
    /\ model # <<>>
    /\ ~model[1].args.backbone.isLayer
    /\ model[1].args.weights = <<"w.h5">>
    /\ model[1].args.files = {}
    /\ model[1].outcome = "ValueError"

\* the item of a non-empty dict that has the numerically smallest key
LowestItem(items) ==
    items[CHOOSE i \in 1..Len(items) :
            \A j \in 1..Len(items) : items[i].k <= items[j].k]

\* C6: for a non-empty mapping from integer levels to tensors the head
\* consumes the tensor of the numerically smallest key, whatever the
\* insertion order, and the other tensors do not influence the output.
C6_LowestLevelSelected ==
    (out # <<>> /\ out[1].inputs.isDict /\ out[1].inputs.items # <<>>) =>
        LET low == LowestItem(out[1].inputs.items)
            alone == SegmentationHead_call(
                         head[1], [isDict |-> TRUE, items |-> <<low>>])
        IN /\ out[1].outcome = "ok"
           /\ out[1].source = <<low.v>>
           /\ out[1].applied = alone.applied
           /\ out[1].source = alone.source

C6_Witness ==
    /\ out # <<>>
    /\ out[1].outcome = "ok"
    /\ Len(out[1].inputs.items) = 3
    /\ out[1].inputs.items[1].k > out[1].inputs.items[3].k
    /\ out[1].inputs.items[3].k > out[1].inputs.items[2].k
    /\ out[1].inputs.items[1].v # out[1].inputs.items[2].v
    /\ out[1].source = <<out[1].inputs.items[2].v>>

\* number of layers one block of the head applies
BlockLen(h) == IF h.dropout # 0 THEN 4 ELSE 3

\* C7: a head configured with N >= 0 convolutions holds N convolution and N
\* normalization layers, and a call applies N blocks of convolution,
\* normalization, activation, dropout (only for a non-zero rate) and then
\* the classification layer; with N = 0 only the classification layer.
C7_BlockCountEqualsConvolutions ==
    (head # <<>>) =>
        LET h == head[1]
            N == h.convolutions
            b == BlockLen(h)
        IN /\ Len(h._conv_layers) = N
           /\ Len(h._bn_layers) = N
           /\ (out # <<>> /\ out[1].outcome = "ok") =>
                 LET ap == out[1].applied IN
                 /\ Len(ap) = N * b + 1
                 /\ \A i \in 1..N :
                       /\ ap[(i - 1) * b + 1].type = "Conv2D"
                       /\ ap[(i - 1) * b + 1].name = conv_name(i - 1)
                       /\ ap[(i - 1) * b + 2].type = "BatchNormalization"
                       /\ ap[(i - 1) * b + 2].name = norm_name(i - 1)
                       /\ ap[(i - 1) * b + 3].type = "Activation"
                       /\ h.dropout # 0 =>
                              ap[(i - 1) * b + 4].type = "Dropout"
                 /\ ap[Len(ap)].name = output_name
                 /\ ap[Len(ap)].filters = h.num_classes

C7_Witness ==
    /\ head # <<>>
    /\ head[1].convolutions = 2
    /\ head[1].dropout # 0
    /\ out # <<>>
    /\ out[1].outcome = "ok"
    /\ Len(out[1].applied) = 9

\* C8: every failure of SegmentationHead.call caused by its input is a
\* ValueError raised before any sub-layer is applied, for an input that is
\* not a mapping and for an empty mapping.
C8_HeadInputFailureIsValueError ==
    (out # <<>> /\ (~out[1].inputs.isDict \/ out[1].inputs.items = <<>>)) =>
        /\ out[1].outcome = "ValueError"
        /\ out[1].applied = <<>>

\* C9: constructing a DeepLabV3 from the six entries of get_config succeeds
\* and yields a model with an equal get_config, for every constructed model.
C9_ConfigRoundTrip ==
    (ret # <<>> /\ ret[1].op = "from_config") =>
        /\ ret[1].outcome = "ok"
        /\ ret[1].restored = <<ret[1].config>>

\* position of the first occurrence of a call in a trace, 0 if none
FirstCall(trace, e) ==
    IF Called(trace, e)
    THEN CHOOSE i \in 1..Len(trace) :
            trace[i] = e /\ \A j \in 1..(i - 1) : trace[j] # e
    ELSE 0

\* C10: weights are loaded only after the existence check on the resolved
\* resource was made and passed, and whenever a weights reference was
\* given: the guards of the check and of the load agree for every value of
\* weights.
C10_LoadOnlyAfterExistenceCheck ==
    (model # <<>>) =>
        /\ Called(model[1].trace, "load_weights") =>
              /\ Called(model[1].trace, "gfile.exists")
              /\ FirstCall(model[1].trace, "gfile.exists")
                    < FirstCall(model[1].trace, "load_weights")
              /\ gfile_exists(model[1].args.files,
                     parse_weights(model[1].args.weights[1], TRUE,
                                   "deeplabv3"))
        /\ (model[1].outcome = "ok" /\ model[1].args.weights # <<>>) =>
              Called(model[1].trace, "load_weights")

====
